---- MODULE Spec2Model ----
(***************************************************************************)
(* CastAlgo prediction market (prox004/algocast, contracts/).              *)
(*                                                                         *)
(* One application instance per market.  The approval program is the       *)
(* PyTeal router of app.py; its method bodies call the subroutines of      *)
(* market_logic.py, which submit the inner transactions of asa_utils.py.   *)
(*                                                                         *)
(* A PyTeal pt.Seq is modelled as a chain of steps over an evaluation      *)
(* context S (a copy of the ledger plus err/output/created_asset_id).  A   *)
(* failed assertion or a rejected inner transaction sets S.err; every      *)
(* later step passes a failed context through unchanged.  The ledger       *)
(* applies the context only when the whole transaction group succeeded.    *)
(*                                                                         *)
(* Quantities are uint64 in the program.  Within the bounds below no sum   *)
(* approaches 2^64 (the reserves are bounded by the Algo supply), so plain *)
(* integer arithmetic is used for + and -.                                 *)
(***************************************************************************)
EXTENDS Integers, Sequences, FiniteSets

\* ---- bounds of the model ------------------------------------------------
MaxTime == 1
MaxAmount == 2
MaxDeposits == 2
InitialAlgo == 2

\* largest reserve of either side drawn when the pricing helper is evaluated
MaxReserve == 7
MaxRemaining == 1

\* ---- program constants --------------------------------------------------
ASA_TOTAL_SUPPLY == 1000000000
MIN_BALANCE_BUFFER == 500000
MinBalanceUnit == 100000
MaxQuestionLen == 128

\* ---- identities -----------------------------------------------------------
Addrs == {"deployer", "alice"}
App == "app"
Accounts == Addrs \cup {App}
ZeroAddr == ""
AssetIds == 1..4
NoHolding == -1

\* questions of 0, 128 and 129 bytes
Q16 == "Will X happen?  "
Q128 == Q16 \o Q16 \o Q16 \o Q16 \o Q16 \o Q16 \o Q16 \o Q16
Questions == {"", Q128, Q128 \o "?"}
Amounts == 0..MaxAmount
Timestamps == 0..MaxTime
Outcomes == 0..2

VARIABLES
    global,        \* the application's global state (9 named slots + multisig)
    algo,          \* settlement-currency balance of every account
    holding,       \* holding[id][a]: units of asset id held by a, NoHolding if not opted in
    asset_count,   \* number of assets created on the ledger so far
    now,           \* Global.latest_timestamp()
    funded,        \* deploy.py step 3 has run
    last,          \* outcome of the latest application call: op, err, ret
    sum_buys,      \* history: sum of the amounts of all successful buys
    paid           \* history: paid[a] = settlement currency paid to a by claims

vars == <<global, algo, holding, asset_count, now, funded, last, sum_buys, paid>>
ledger == <<global, algo, holding, asset_count>>

\* ---- evaluation context ---------------------------------------------------
Ctx ==
    [global |-> global, algo |-> algo, holding |-> holding,
     asset_count |-> asset_count, created_asset_id |-> 0,
     err |-> "", output |-> 0]

Failed(S) == S.err # ""

Fail(S, comment) == IF Failed(S) THEN S ELSE [S EXCEPT !.err = comment]

Require(S, cond, comment) ==
    IF Failed(S) THEN S
    ELSE IF cond THEN S
    ELSE [S EXCEPT !.err = comment]

globalPut(S, key, value) ==
    IF Failed(S) THEN S ELSE [S EXCEPT !.global[key] = value]

SetOutput(S, value) ==
    IF Failed(S) THEN S ELSE [S EXCEPT !.output = value]

\* ---- ledger rules for the transactions the program submits ----------------
AssetsHeld(S, a) == Cardinality({id \in AssetIds : S.holding[id][a] # NoHolding})

\* minimum balance: 0.1 Algo base + 0.1 Algo per asset held; only the
\* application account's requirement is modelled
MinBalance(S, a) == IF a = App THEN MinBalanceUnit * (1 + AssetsHeld(S, a)) ELSE 0

Payment(S, sender, receiver, amount) ==
    IF Failed(S) THEN S
    ELSE IF sender = receiver THEN
        IF S.algo[sender] >= amount /\ S.algo[sender] >= MinBalance(S, sender)
        THEN S ELSE Fail(S, "overspend")
    ELSE IF S.algo[sender] - amount < MinBalance(S, sender) THEN Fail(S, "overspend")
    ELSE [S EXCEPT !.algo[sender] = @ - amount, !.algo[receiver] = @ + amount]

AssetTransfer(S, asset_id, from, to, amount) ==
    IF Failed(S) THEN S
    ELSE IF asset_id \notin 1..S.asset_count THEN Fail(S, "asset does not exist")
    ELSE IF S.holding[asset_id][from] = NoHolding THEN Fail(S, "sender not opted in")
    ELSE IF S.holding[asset_id][to] = NoHolding THEN Fail(S, "receiver not opted in")
    ELSE IF S.holding[asset_id][from] < amount THEN Fail(S, "underflow on asset transfer")
    ELSE IF from = to THEN S
    ELSE [S EXCEPT !.holding[asset_id][from] = @ - amount,
                   !.holding[asset_id][to] = @ + amount]

\* ---- asa_utils.py ---------------------------------------------------------
create_asa(S, total) ==
    IF Failed(S) THEN S
    ELSE IF S.asset_count + 1 \notin AssetIds THEN Fail(S, "asset id space exhausted")
    ELSE IF S.algo[App] < MinBalance(S, App) + MinBalanceUnit THEN Fail(S, "balance below min")
    ELSE LET id == S.asset_count + 1 IN
         [S EXCEPT !.asset_count = id,
                   !.created_asset_id = id,
                   !.holding[id] = [a \in Accounts |-> IF a = App THEN total ELSE NoHolding]]

\* variant: the inner transfer charges the application account a fee
send_asa_Fee(S, asset_id, receiver, amount) ==
    LET s1 == AssetTransfer(S, asset_id, App, receiver, amount)
    IN IF Failed(s1) THEN s1 ELSE [s1 EXCEPT !.algo[App] = @ - 1000]

\* variant: tokens the application account does not hold are issued anyway
send_asa_Unbacked(S, asset_id, receiver, amount) ==
    LET s1 == AssetTransfer(S, asset_id, App, receiver, amount)
    IN IF s1.err = "underflow on asset transfer"
       THEN [S EXCEPT !.holding[asset_id][receiver] = @ + amount]
       ELSE s1

send_asa(S, asset_id, receiver, amount) ==
    AssetTransfer(S, asset_id, App, receiver, amount)

\* variant: the clawback moves one unit less than asked
burn_asa_Short(S, asset_id, clawback_from, amount) ==
    AssetTransfer(S, asset_id, clawback_from, App, amount - 1)

burn_asa(S, asset_id, clawback_from, amount) ==
    AssetTransfer(S, asset_id, clawback_from, App, amount)

send_algo(S, receiver, amount) ==
    Payment(S, App, receiver, amount)

\* ---- market_logic.py: guard helpers ---------------------------------------
\* variant: the resolved flag is not checked
assert_not_resolved_Skipped(S) == S

assert_not_resolved(S) ==
    Require(S, S.global.resolved = 0, "market already resolved")

\* variant: off by one, trading still open at close_ts
assert_trading_open_Inclusive(S) ==
    Require(S, now <= S.global.close_ts, "market trading window closed")

assert_trading_open(S) ==
    Require(S, now < S.global.close_ts, "market trading window closed")

\* variant: the stored multisig address is the authority
assert_creator_Multisig(S, caller) ==
    Require(S, caller = S.global.multisig, "only creator may call this")

\* variant: the caller is not checked at all
assert_creator_Skipped(S, caller) == S

assert_creator(S, caller) ==
    Require(S, caller = S.global.creator, "only creator may call this")

\* variant: the resolved flag is not checked before a claim
assert_resolved_Skipped(S) == S

assert_resolved(S) ==
    Require(S, S.global.resolved = 1, "market not resolved yet")

\* ---- market_logic.py: pricing helpers -------------------------------------
\* variant: the quotient is rounded up
compute_yes_probability_RoundUp(S) ==
    LET yes_r == S.global.yes_reserve
        no_r  == S.global.no_reserve
        total == yes_r + no_r
    IN IF total = 0 THEN 5000 ELSE (yes_r * 10000 + total - 1) \div total

compute_yes_probability(S) ==
    LET yes_r == S.global.yes_reserve
        no_r  == S.global.no_reserve
        total == yes_r + no_r
    IN IF total = 0 THEN 5000 ELSE (yes_r * 10000) \div total

\* variant: two tokens per unit deposited
tokens_for_amount_Double(amount_micro) == 2 * amount_micro

tokens_for_amount(amount_micro) == amount_micro

\* ---- market_logic.py: buy / resolve / claim --------------------------------
\* variant: the deposit is not added to yes_reserve
handle_buy_yes_NoDeposit(S, payment_amount, buyer) ==
    LET s1 == assert_not_resolved(S)
        s2 == assert_trading_open(s1)
        s3 == Require(s2, payment_amount > 0, "amount must be positive")
        tokens == tokens_for_amount(payment_amount)
    IN send_asa(s3, s3.global.yes_asa_id, buyer, tokens)

\* variant: the trading window is checked before the resolved flag
handle_buy_yes_WindowFirst(S, payment_amount, buyer) ==
    LET s1 == assert_trading_open(S)
        s2 == assert_not_resolved(s1)
        s3 == Require(s2, payment_amount > 0, "amount must be positive")
        tokens == tokens_for_amount(payment_amount)
        s4 == globalPut(s3, "yes_reserve", s3.global.yes_reserve + payment_amount)
    IN send_asa(s4, s4.global.yes_asa_id, buyer, tokens)

handle_buy_yes(S, payment_amount, buyer) ==
    LET s1 == assert_not_resolved(S)
        s2 == assert_trading_open(s1)
        s3 == Require(s2, payment_amount > 0, "amount must be positive")
        tokens == tokens_for_amount(payment_amount)
        s4 == globalPut(s3, "yes_reserve", s3.global.yes_reserve + payment_amount)
    IN send_asa(s4, s4.global.yes_asa_id, buyer, tokens)

\* variant: the NO deposit is added to yes_reserve
handle_buy_no_WrongSide(S, payment_amount, buyer) ==
    LET s1 == assert_not_resolved(S)
        s2 == assert_trading_open(s1)
        s3 == Require(s2, payment_amount > 0, "amount must be positive")
        tokens == tokens_for_amount(payment_amount)
        s4 == globalPut(s3, "yes_reserve", s3.global.yes_reserve + payment_amount)
    IN send_asa(s4, s4.global.no_asa_id, buyer, tokens)

handle_buy_no(S, payment_amount, buyer) ==
    LET s1 == assert_not_resolved(S)
        s2 == assert_trading_open(s1)
        s3 == Require(s2, payment_amount > 0, "amount must be positive")
        tokens == tokens_for_amount(payment_amount)
        s4 == globalPut(s3, "no_reserve", s3.global.no_reserve + payment_amount)
    IN send_asa(s4, s4.global.no_asa_id, buyer, tokens)

\* variant: resolution only strictly after close_ts
handle_resolve_Strict(S, outcome, caller) ==
    LET s1 == assert_creator(S, caller)
        s2 == assert_not_resolved(s1)
        s3 == Require(s2, now > s2.global.close_ts, "market not expired yet")
        s4 == Require(s3, outcome = 0 \/ outcome = 1, "outcome must be 0 or 1")
        s5 == globalPut(s4, "resolved", 1)
    IN globalPut(s5, "outcome", outcome)

\* variant: the expiry of the trading window is not checked
handle_resolve_NoExpiry(S, outcome, caller) ==
    LET s1 == assert_creator(S, caller)
        s2 == assert_not_resolved(s1)
        s4 == Require(s2, outcome = 0 \/ outcome = 1, "outcome must be 0 or 1")
        s5 == globalPut(s4, "resolved", 1)
    IN globalPut(s5, "outcome", outcome)

handle_resolve(S, outcome, caller) ==
    LET s1 == assert_creator(S, caller)
        s2 == assert_not_resolved(s1)
        s3 == Require(s2, now >= s2.global.close_ts, "market not expired yet")
        s4 == Require(s3, outcome = 0 \/ outcome = 1, "outcome must be 0 or 1")
        s5 == globalPut(s4, "resolved", 1)
    IN globalPut(s5, "outcome", outcome)

\* the asset the claim settles: YES when outcome = 1, NO otherwise
winning_asa(S) ==
    IF S.global.outcome = 1 THEN S.global.yes_asa_id ELSE S.global.no_asa_id

\* pt.AssetHolding.balance(account, asset): hasValue() and value()
balance_hasValue(S, account, asset_id) ==
    /\ asset_id \in 1..S.asset_count
    /\ S.holding[asset_id][account] # NoHolding

balance_value(S, account, asset_id) ==
    IF balance_hasValue(S, account, asset_id) THEN S.holding[asset_id][account] ELSE 0

\* variant: the winning tokens are not clawed back
handle_claim_NoBurn(S, claimer) ==
    LET s1 == assert_resolved(S)
        s2 == Require(s1, balance_hasValue(s1, claimer, winning_asa(s1)),
                      "claimer has no holding in winning ASA")
        s3 == Require(s2, balance_value(s2, claimer, winning_asa(s2)) > 0,
                      "zero winning tokens held")
        token_bal == balance_value(s3, claimer, winning_asa(s3))
    IN send_algo(s3, claimer, token_bal)

\* variant: a zero balance is not rejected
handle_claim_ZeroAllowed(S, claimer) ==
    LET s1 == assert_resolved(S)
        s2 == Require(s1, balance_hasValue(s1, claimer, winning_asa(s1)),
                      "claimer has no holding in winning ASA")
        token_bal == balance_value(s2, claimer, winning_asa(s2))
        s4 == burn_asa(s2, winning_asa(s2), claimer, token_bal)
    IN send_algo(s4, claimer, token_bal)

\* variant: the payout is also deducted from the winning side's reserve
handle_claim_ReduceReserve(S, claimer) ==
    LET s1 == assert_resolved(S)
        s2 == Require(s1, balance_hasValue(s1, claimer, winning_asa(s1)),
                      "claimer has no holding in winning ASA")
        s3 == Require(s2, balance_value(s2, claimer, winning_asa(s2)) > 0,
                      "zero winning tokens held")
        token_bal == balance_value(s3, claimer, winning_asa(s3))
        s4 == burn_asa(s3, winning_asa(s3), claimer, token_bal)
        s5 == send_algo(s4, claimer, token_bal)
        key == IF s5.global.outcome = 1 THEN "yes_reserve" ELSE "no_reserve"
    IN globalPut(s5, key, s5.global[key] - token_bal)

\* variant: the YES token is taken for the winning token whatever the outcome
handle_claim_YesOnly(S, claimer) ==
    LET s1 == assert_resolved(S)
        s2 == Require(s1, balance_hasValue(s1, claimer, s1.global.yes_asa_id),
                      "claimer has no holding in winning ASA")
        s3 == Require(s2, balance_value(s2, claimer, s2.global.yes_asa_id) > 0,
                      "zero winning tokens held")
        token_bal == balance_value(s3, claimer, s3.global.yes_asa_id)
        s4 == burn_asa(s3, s3.global.yes_asa_id, claimer, token_bal)
    IN send_algo(s4, claimer, token_bal)

handle_claim(S, claimer) ==
    LET s1 == assert_resolved(S)
        s2 == Require(s1, balance_hasValue(s1, claimer, winning_asa(s1)),
                      "claimer has no holding in winning ASA")
        s3 == Require(s2, balance_value(s2, claimer, winning_asa(s2)) > 0,
                      "zero winning tokens held")
        token_bal == balance_value(s3, claimer, winning_asa(s3))
        s4 == burn_asa(s3, winning_asa(s3), claimer, token_bal)
    IN send_algo(s4, claimer, token_bal)

\* ---- app.py: ABI method bodies ---------------------------------------------
\* app.py imports KEY_MULTISIG from market_logic.py, which does not define it;
\* the slot is modelled under the key "multisig" (config.py counts it among the
\* three byte slices).  It is written by create_market and read by nothing.
\* variant: the close_ts = 0 guard is missing
create_market_expr_NoGuard(S, sender, question, close_ts, multisig_addr) ==
    LET s2  == Require(S, close_ts > now, "close_ts must be future")
        s3  == Require(s2, Len(question) > 0, "question cannot be empty")
        s4  == Require(s3, Len(question) <= MaxQuestionLen, "question too long")
        s5  == globalPut(s4, "creator", sender)
        s6  == globalPut(s5, "multisig", multisig_addr)
        s7  == globalPut(s6, "question", question)
        s8  == globalPut(s7, "close_ts", close_ts)
        s9  == globalPut(s8, "yes_reserve", 0)
        s10 == globalPut(s9, "no_reserve", 0)
        s11 == globalPut(s10, "resolved", 0)
        s12 == globalPut(s11, "outcome", 0)
        s13 == create_asa(s12, ASA_TOTAL_SUPPLY)
        s14 == globalPut(s13, "yes_asa_id", s13.created_asset_id)
        s15 == create_asa(s14, ASA_TOTAL_SUPPLY)
    IN globalPut(s15, "no_asa_id", s15.created_asset_id)

\* variant: a close time equal to the current time is accepted
create_market_expr_CloseNotFuture(S, sender, question, close_ts, multisig_addr) ==
    LET s1  == Require(S, S.global.close_ts = 0, "already initialized")
        s2  == Require(s1, close_ts >= now, "close_ts must be future")
        s3  == Require(s2, Len(question) > 0, "question cannot be empty")
        s4  == Require(s3, Len(question) <= MaxQuestionLen, "question too long")
        s5  == globalPut(s4, "creator", sender)
        s6  == globalPut(s5, "multisig", multisig_addr)
        s7  == globalPut(s6, "question", question)
        s8  == globalPut(s7, "close_ts", close_ts)
        s9  == globalPut(s8, "yes_reserve", 0)
        s10 == globalPut(s9, "no_reserve", 0)
        s11 == globalPut(s10, "resolved", 0)
        s12 == globalPut(s11, "outcome", 0)
        s13 == create_asa(s12, ASA_TOTAL_SUPPLY)
        s14 == globalPut(s13, "yes_asa_id", s13.created_asset_id)
        s15 == create_asa(s14, ASA_TOTAL_SUPPLY)
    IN globalPut(s15, "no_asa_id", s15.created_asset_id)

create_market_expr(S, sender, question, close_ts, multisig_addr) ==
    LET s1  == Require(S, S.global.close_ts = 0, "already initialized")
        s2  == Require(s1, close_ts > now, "close_ts must be future")
        s3  == Require(s2, Len(question) > 0, "question cannot be empty")
        s4  == Require(s3, Len(question) <= MaxQuestionLen, "question too long")
        s5  == globalPut(s4, "creator", sender)
        s6  == globalPut(s5, "multisig", multisig_addr)
        s7  == globalPut(s6, "question", question)
        s8  == globalPut(s7, "close_ts", close_ts)
        s9  == globalPut(s8, "yes_reserve", 0)
        s10 == globalPut(s9, "no_reserve", 0)
        s11 == globalPut(s10, "resolved", 0)
        s12 == globalPut(s11, "outcome", 0)
        s13 == create_asa(s12, ASA_TOTAL_SUPPLY)
        s14 == globalPut(s13, "yes_asa_id", s13.created_asset_id)
        s15 == create_asa(s14, ASA_TOTAL_SUPPLY)
    IN globalPut(s15, "no_asa_id", s15.created_asset_id)

\* variant: the payment's sender is not compared with the caller
buy_yes_expr_NoSenderCheck(S, sender, payment) ==
    LET s1 == Require(S, payment.receiver = App, "payment must go to contract")
        s3 == handle_buy_yes(s1, payment.amount, payment.sender)
    IN SetOutput(s3, payment.amount)

buy_yes_expr(S, sender, payment) ==
    LET s1 == Require(S, payment.receiver = App, "payment must go to contract")
        s2 == Require(s1, payment.sender = sender, "payment sender must match caller")
        s3 == handle_buy_yes(s2, payment.amount, payment.sender)
    IN SetOutput(s3, payment.amount)

buy_no_expr(S, sender, payment) ==
    LET s1 == Require(S, payment.receiver = App, "payment must go to contract")
        s2 == Require(s1, payment.sender = sender, "payment sender must match caller")
        s3 == handle_buy_no(s2, payment.amount, payment.sender)
    IN SetOutput(s3, payment.amount)

resolve_market_expr(S, sender, outcome) ==
    handle_resolve(S, outcome, sender)

\* the balance is read after handle_claim has run
\* variant: the creator's tokens are reclaimed and paid, whoever calls
claim_expr_FromCreator(S, sender) ==
    LET s1 == handle_claim(S, S.global.creator)
    IN SetOutput(s1, balance_value(s1, sender, winning_asa(s1)))

claim_expr(S, sender) ==
    LET s1 == handle_claim(S, sender)
    IN SetOutput(s1, balance_value(s1, sender, winning_asa(s1)))

\* ---- the ledger applies a transaction group all-or-nothing -----------------
\* variant: the effects of a failed call are kept
Commit_Partial(R) ==
    /\ global' = R.global
    /\ algo' = R.algo
    /\ holding' = R.holding
    /\ asset_count' = R.asset_count

Commit(R) ==
    IF Failed(R)
    THEN UNCHANGED ledger
    ELSE /\ global' = R.global
         /\ algo' = R.algo
         /\ holding' = R.holding
         /\ asset_count' = R.asset_count

Result(op, R) ==
    [op |-> op, err |-> R.err,
     ret |-> IF Failed(R) THEN 0 ELSE R.output]

Payments == [sender : Addrs, receiver : Accounts, amount : Amounts]

\* ---- actions: one per application call --------------------------------------
create_market(sender, question, close_ts, multisig_addr) ==
    LET R == create_market_expr(Ctx, sender, question, close_ts, multisig_addr) IN
    /\ Commit(R)
    /\ last' = Result("create_market", R)
    /\ UNCHANGED <<now, funded, sum_buys, paid>>

\* the bound on deposits: a buy is explored while the reserves stay within
\* MaxDeposits, or when at most MaxRemaining units of the side's token are left
\* in custody (the supply then bounds the buys by itself)
WithinBounds(amount, asset_id) ==
    \/ global.yes_reserve + global.no_reserve + amount <= MaxDeposits
    \/ /\ asset_id \in 1..asset_count
       /\ holding[asset_id][App] <= MaxRemaining

\* atomic group [payment, buy_yes call]
buy_yes(sender, payment) ==
    LET P == Payment(Ctx, payment.sender, payment.receiver, payment.amount)
        R == buy_yes_expr(P, sender, payment) IN
    /\ WithinBounds(payment.amount, global.yes_asa_id)
    /\ Commit(R)
    /\ last' = Result("buy_yes", R)
    /\ sum_buys' = IF Failed(R) THEN sum_buys ELSE sum_buys + payment.amount
    /\ UNCHANGED <<now, funded, paid>>

buy_no(sender, payment) ==
    LET P == Payment(Ctx, payment.sender, payment.receiver, payment.amount)
        R == buy_no_expr(P, sender, payment) IN
    /\ WithinBounds(payment.amount, global.no_asa_id)
    /\ Commit(R)
    /\ last' = Result("buy_no", R)
    /\ sum_buys' = IF Failed(R) THEN sum_buys ELSE sum_buys + payment.amount
    /\ UNCHANGED <<now, funded, paid>>

resolve_market(sender, outcome) ==
    LET R == resolve_market_expr(Ctx, sender, outcome) IN
    /\ Commit(R)
    /\ last' = Result("resolve_market", R)
    /\ UNCHANGED <<now, funded, sum_buys, paid>>

claim(sender) ==
    LET R == claim_expr(Ctx, sender) IN
    /\ Commit(R)
    /\ last' = Result("claim", R)
    /\ paid' = IF Failed(R) THEN paid
               ELSE [paid EXCEPT ![sender] = @ + (R.algo[sender] - algo[sender])]
    /\ UNCHANGED <<now, funded, sum_buys>>

\* ---- actions of the environment ---------------------------------------------
\* deploy.py step 3: the deployer funds the application account once
Fund ==
    LET R == Payment(Ctx, "deployer", App, MIN_BALANCE_BUFFER) IN
    /\ ~funded
    /\ ~Failed(R)
    /\ algo' = R.algo
    /\ funded' = TRUE
    /\ UNCHANGED <<global, holding, asset_count, now, last, sum_buys, paid>>

\* an account registers for (opts in to) an existing share token
OptIn(a, id) ==
    /\ id \in 1..asset_count
    /\ holding[id][a] = NoHolding
    /\ holding' = [holding EXCEPT ![id][a] = 0]
    /\ UNCHANGED <<global, algo, asset_count, now, funded, last, sum_buys, paid>>

\* the host's clock advances
Tick ==
    /\ now < MaxTime
    /\ now' = now + 1
    /\ UNCHANGED <<global, algo, holding, asset_count, funded, last, sum_buys, paid>>

\* ---- specification ------------------------------------------------------------
Init ==
    /\ global = [question |-> "", creator |-> ZeroAddr, multisig |-> ZeroAddr,
                 close_ts |-> 0, yes_asa_id |-> 0, no_asa_id |-> 0,
                 yes_reserve |-> 0, no_reserve |-> 0, resolved |-> 0, outcome |-> 0]
    /\ algo = [a \in Accounts |->
                 IF a = App THEN 0
                 ELSE IF a = "deployer" THEN MIN_BALANCE_BUFFER + InitialAlgo
                 ELSE InitialAlgo]
    /\ holding = [id \in AssetIds |-> [a \in Accounts |-> NoHolding]]
    /\ asset_count = 0
    /\ now = 0
    /\ funded = FALSE
    /\ last = [op |-> "none", err |-> "", ret |-> 0]
    /\ sum_buys = 0
    /\ paid = [a \in Addrs |-> 0]

Next ==
    \/ \E sender \in Addrs, question \in Questions, close_ts \in Timestamps,
          multisig_addr \in Addrs :
            create_market(sender, question, close_ts, multisig_addr)
    \/ \E sender \in Addrs, payment \in Payments : buy_yes(sender, payment)
    \/ \E sender \in Addrs, payment \in Payments : buy_no(sender, payment)
    \/ \E sender \in Addrs, outcome \in Outcomes : resolve_market(sender, outcome)
    \/ \E sender \in Addrs : claim(sender)
    \/ Fund
    \/ \E a \in Addrs, id \in AssetIds : OptIn(a, id)
    \/ Tick

Spec == Init /\ [][Next]_vars

\* a step of the environment (not an application call)
EnvStep == Fund \/ Tick \/ \E a \in Addrs, id \in AssetIds : OptIn(a, id)

Reserves == global.yes_reserve + global.no_reserve

\* ---- C1 ---------------------------------------------------------------------
\* C1: after any sequence of calls, successful or rejected, yes_reserve +
\* no_reserve equals the sum of the amounts of all successful buys so far,
\* and the sum never decreases from one state to the next.
C1_ReservesEqualSumOfBuys ==
    /\ [](Reserves = sum_buys)
    /\ [][Reserves' >= Reserves]_vars

C1_Witness ==
    /\ global.yes_reserve = 1
    /\ global.no_reserve = 1
    /\ sum_buys = 2
    /\ last.err # ""

C3_CreateOnlyOnce ==
    [][(global.close_ts # 0 /\ last'.op = "create_market" /\ ~EnvStep)
          => (last'.err = "already initialized" /\ UNCHANGED global)]_vars

C3_Witness ==
    /\ last.op = "create_market"
    /\ last.err = "already initialized"
    /\ Reserves > 0

\* ---- C4 ---------------------------------------------------------------------
\* C4: whenever now >= close_ts or the market is resolved, a buy of either
\* side fails and both reserves keep their values.
C4_NoBuyAfterCloseOrResolution ==
    [][(/\ now >= global.close_ts \/ global.resolved = 1
        /\ last'.op \in {"buy_yes", "buy_no"}
        /\ ~EnvStep)
          => (/\ last'.err # ""
              /\ global'.yes_reserve = global.yes_reserve
              /\ global'.no_reserve = global.no_reserve)]_vars

C4_Witness ==
    /\ last.op \in {"buy_yes", "buy_no"}
    /\ last.err = "market trading window closed"
    /\ global.close_ts # 0
    /\ global.resolved = 0

\* ---- C5 ---------------------------------------------------------------------
\* C5 (as stated): once resolved, resolved stays 1, outcome keeps its value,
\* and every later resolve call, by any caller, fails with "market already
\* resolved".
C5_Original ==
    [][global.resolved = 1 =>
        /\ global'.resolved = 1
        /\ global'.outcome = global.outcome
        /\ last'.op = "resolve_market" =>
              \A sender \in Addrs, outcome \in Outcomes :
                 resolve_market(sender, outcome) => last'.err = "market already resolved"]_vars

\* C5 (amended): once resolved, resolved stays 1, outcome keeps its value, and
\* every later resolve call fails: with "market already resolved" when the
\* caller is the creator, with "only creator may call this" otherwise.
C5_ResolutionIrreversible ==
    [][global.resolved = 1 =>
        /\ global'.resolved = 1
        /\ global'.outcome = global.outcome
        /\ last'.op = "resolve_market" =>
              \A sender \in Addrs, outcome \in Outcomes :
                 resolve_market(sender, outcome) =>
                    last'.err = IF sender = global.creator
                                THEN "market already resolved"
                                ELSE "only creator may call this"]_vars

C5_Witness ==
    /\ global.resolved = 1
    /\ last.op = "resolve_market"
    /\ last.err = "market already resolved"

\* ---- C6 ---------------------------------------------------------------------
\* C6: resolve fails and changes no state whenever now < close_ts or the
\* outcome argument is not 0 or 1, even when the caller is authorized.
C6_ResolveRejectsEarlyOrBadOutcome ==
    [][last'.op = "resolve_market" => \A sender \in Addrs, outcome \in Outcomes :
          (resolve_market(sender, outcome) /\ (now < global.close_ts \/ outcome \notin {0, 1}))
             => (last'.err # "" /\ UNCHANGED ledger)]_vars

C6_Witness ==
    /\ last.op = "resolve_market"
    /\ last.err = "market not expired yet"

\* ---- C7 ---------------------------------------------------------------------
\* C7: resolve fails and changes no state whenever the caller is not the
\* resolver identity stored by create (the multisig_addr argument).
C7_OnlyStoredResolverResolves ==
    [][last'.op = "resolve_market" => \A sender \in Addrs, outcome \in Outcomes :
          (resolve_market(sender, outcome) /\ sender # global.multisig)
             => (last'.err # "" /\ UNCHANGED ledger)]_vars

C9_ClaimPaysBalanceOnce ==
    [][last'.op = "claim" => \A c \in Addrs :
          (claim(c) /\ last'.err = "") =>
             LET w == winning_asa(Ctx)
                 b == holding[w][c]
             IN /\ b > 0
                /\ algo'[c] = algo[c] + b
                /\ algo'[App] = algo[App] - b
                /\ holding'[w][c] = 0
                /\ holding'[w][App] = holding[w][App] + b
                /\ (claim_expr(Ctx, c).err)' = "zero winning tokens held"]_vars

C9_Witness ==
    /\ last.op = "claim"
    /\ last.err = ""
    /\ \E c \in Addrs : paid[c] = 2 /\ holding[winning_asa(Ctx)][c] = 0

\* ---- C10 --------------------------------------------------------------------
\* C10: the value returned by a successful claim equals the amount of
\* settlement currency that call transferred to the claimant.
C10_ClaimReturnsPayout ==
    [][last'.op = "claim" => \A c \in Addrs :
          (claim(c) /\ last'.err = "") => last'.ret = algo'[c] - algo[c]]_vars

\* ---- share tokens in circulation ------------------------------------------
\* units of asset id held by account a (0 when a has not opted in or the asset
\* does not exist yet)
Held(a, id) ==
    IF id \in 1..asset_count /\ holding[id][a] # NoHolding THEN holding[id][a] ELSE 0

RECURSIVE SumHeld(_, _)
SumHeld(id, as) ==
    IF as = {} THEN 0
    ELSE LET a == CHOOSE x \in as : TRUE IN Held(a, id) + SumHeld(id, as \ {a})

\* units of asset id held outside market custody
Outstanding(id) == SumHeld(id, Addrs)

losing_asa(S) ==
    IF S.global.outcome = 1 THEN S.global.no_asa_id ELSE S.global.yes_asa_id

\* ---- C11 --------------------------------------------------------------------
\* C11: in a resolved market a claim by an identity whose winning-token balance
\* is zero (not opted in to the winning token, or holding only the losing
\* token) is rejected for lack of a winning holding; nothing is paid and no
\* token moves.
C11_ZeroBalanceClaimRejected ==
    [][last'.op = "claim" => \A c \in Addrs :
          (claim(c) /\ global.resolved = 1 /\ Held(c, winning_asa(Ctx)) = 0)
             => /\ last'.err \in {"claimer has no holding in winning ASA",
                                  "zero winning tokens held"}
                /\ UNCHANGED ledger]_vars

C11_Witness ==
    /\ global.resolved = 1
    /\ last.op = "claim"
    /\ last.err = "claimer has no holding in winning ASA"
    /\ \E c \in Addrs : Held(c, losing_asa(Ctx)) > 0 /\ Held(c, winning_asa(Ctx)) = 0
    /\ \A c \in Addrs : paid[c] = 0

\* ---- C12 --------------------------------------------------------------------
\* C12: while resolved is 0 every claim fails with "market not resolved yet";
\* no currency leaves custody and no token is reclaimed.
C12_NoClaimBeforeResolution ==
    [][(global.resolved = 0 /\ last'.op = "claim" /\ ~EnvStep)
          => (last'.err = "market not resolved yet" /\ UNCHANGED ledger)]_vars

C12_Witness ==
    /\ global.resolved = 0
    /\ now >= global.close_ts
    /\ last.op = "claim"
    /\ last.err = "market not resolved yet"
    /\ Outstanding(global.no_asa_id) > 0

\* ---- C13 --------------------------------------------------------------------
\* C13: in every reachable state the YES shares held outside market custody
\* are at most yes_reserve and the NO shares held outside custody are at most
\* no_reserve.
C13_SharesBackedByReserve ==
    /\ Outstanding(global.yes_asa_id) <= global.yes_reserve
    /\ Outstanding(global.no_asa_id) <= global.no_reserve

C13_Witness ==
    /\ global.resolved = 1
    /\ Outstanding(global.yes_asa_id) < global.yes_reserve
    /\ Outstanding(global.no_asa_id) = global.no_reserve
    /\ global.no_reserve > 0

\* ---- C14 --------------------------------------------------------------------
\* C14: a successful buy of a side with amount by caller p adds amount to that
\* side's reserve, to p's balance of that side's token and to custody, returns
\* amount, and leaves the other reserve, resolved, outcome and every other
\* balance unchanged.
BuyEffect(sender, payment, reserve_key, asset_id) ==
    /\ payment.amount > 0
    /\ global' = [global EXCEPT ![reserve_key] = @ + payment.amount]
    /\ holding' = [holding EXCEPT ![asset_id][sender] = @ + payment.amount,
                                  ![asset_id][App] = @ - payment.amount]
    /\ algo' = [algo EXCEPT ![sender] = @ - payment.amount,
                            ![App] = @ + payment.amount]
    /\ asset_count' = asset_count
    /\ last'.ret = payment.amount

C14_BuyEffect ==
    [][/\ (last'.op = "buy_yes" /\ last'.err = "") =>
            \A sender \in Addrs, payment \in Payments :
               buy_yes(sender, payment)
                  => BuyEffect(sender, payment, "yes_reserve", global.yes_asa_id)
       /\ (last'.op = "buy_no" /\ last'.err = "") =>
            \A sender \in Addrs, payment \in Payments :
               buy_no(sender, payment)
                  => BuyEffect(sender, payment, "no_reserve", global.no_asa_id)]_vars

C14_Witness ==
    /\ last.op = "buy_no"
    /\ last.err = ""
    /\ last.ret = 1
    /\ global.yes_reserve = 1
    /\ global.no_reserve = 1
    /\ Outstanding(global.no_asa_id) = 1

\* ---- C15 --------------------------------------------------------------------
\* C15: a buy is rejected with no effect when the payment's sender differs
\* from the caller, when its receiver is not the market's custody address, or
\* when its amount is zero.
C15_BuyPaymentChecked ==
    [][last'.op \in {"buy_yes", "buy_no"} =>
          \/ last'.err # "" /\ UNCHANGED ledger
          \/ \A sender \in Addrs, payment \in Payments :
                (\/ payment.sender # sender
                 \/ payment.receiver # App
                 \/ payment.amount = 0)
                   => ~(buy_yes(sender, payment) \/ buy_no(sender, payment))]_vars

C15_Witness ==
    /\ last.op = "buy_yes"
    /\ last.err = "payment sender must match caller"
    /\ now < global.close_ts

\* ---- C16 --------------------------------------------------------------------
\* C16: the stored creator is the identity that deployed the instance; no other
\* identity becomes creator by calling create first on the uninitialized
\* market.  (The instance of Init is deployed and funded by "deployer".)
C16_CreatorIsDeployer ==
    global.creator \in {ZeroAddr, "deployer"}

\* ---- evaluation of the pricing helper on an open market ---------------------
\* an open market created by the deployer in which alice holds yes_r YES and
\* no_r NO shares
MarketWithReserves(yes_r, no_r) ==
    /\ global = [question |-> Q128, creator |-> "deployer", multisig |-> "deployer",
                 close_ts |-> 1, yes_asa_id |-> 1, no_asa_id |-> 2,
                 yes_reserve |-> yes_r, no_reserve |-> no_r,
                 resolved |-> 0, outcome |-> 0]
    /\ algo = [a \in Accounts |->
                 IF a = App THEN MIN_BALANCE_BUFFER + yes_r + no_r ELSE InitialAlgo]
    /\ holding = [id \in AssetIds |-> [a \in Accounts |->
                    IF id = 1 THEN (IF a = App THEN ASA_TOTAL_SUPPLY - yes_r
                                    ELSE IF a = "alice" THEN yes_r ELSE NoHolding)
                    ELSE IF id = 2 THEN (IF a = App THEN ASA_TOTAL_SUPPLY - no_r
                                         ELSE IF a = "alice" THEN no_r ELSE NoHolding)
                    ELSE NoHolding]]
    /\ asset_count = 2
    /\ now = 0
    /\ funded = TRUE
    /\ last = [op |-> "none", err |-> "", ret |-> 0]
    /\ sum_buys = yes_r + no_r
    /\ paid = [a \in Addrs |-> 0]

InitProb ==
    \E yes_r \in 0..MaxReserve, no_r \in 0..MaxReserve : MarketWithReserves(yes_r, no_r)

\* a read-only evaluation of compute_yes_probability
Query ==
    /\ last' = [op |-> "compute_yes_probability", err |-> "",
                ret |-> compute_yes_probability(Ctx)]
    /\ UNCHANGED <<global, algo, holding, asset_count, now, funded, sum_buys, paid>>

NextProb == Query

SpecProb == InitProb /\ [][NextProb]_vars

\* ---- C17 --------------------------------------------------------------------
\* C17: the implied probability is exactly 5000 when yes_reserve + no_reserve
\* is 0 and otherwise the floor of yes_reserve * 10000 / (yes_reserve +
\* no_reserve); it lies in 0..10000 and evaluating it changes no state.
C17_ImpliedProbability ==
    /\ [](last.op = "compute_yes_probability" =>
            LET y == global.yes_reserve
                t == global.yes_reserve + global.no_reserve
                r == last.ret
            IN /\ r \in 0..10000
               /\ t = 0 => r = 5000
               /\ t > 0 => (r * t <= y * 10000 /\ y * 10000 < (r + 1) * t))
    /\ [][last'.op = "compute_yes_probability" => UNCHANGED ledger]_vars

C17_Witness ==
    /\ last.op = "compute_yes_probability"
    /\ global.yes_reserve = 1
    /\ global.no_reserve = 2
    /\ last.ret = 3333

\* ---- custody accounting -----------------------------------------------------
RECURSIVE SumPaid(_)
SumPaid(as) ==
    IF as = {} THEN 0
    ELSE LET a == CHOOSE x \in as : TRUE IN paid[a] + SumPaid(as \ {a})

\* settlement currency paid out by all claims so far
TotalPaid == SumPaid(Addrs)

\* what deploy.py step 3 has put into custody
Funding == IF funded THEN MIN_BALANCE_BUFFER ELSE 0

WinReserve == IF global.outcome = 1 THEN global.yes_reserve ELSE global.no_reserve
LoseReserve == IF global.outcome = 1 THEN global.no_reserve ELSE global.yes_reserve

\* a step in which a buy succeeded and custody grew by its amount
BuyCredited ==
    /\ sum_buys' > sum_buys
    /\ algo'[App] = algo[App] + (sum_buys' - sum_buys)

\* a step in which a claim succeeded and custody shrank by its payout
ClaimDebited ==
    /\ paid' # paid
    /\ algo'[App] = algo[App] - (TotalPaid' - TotalPaid)

\* the deployer's funding payment
FundCredited ==
    /\ funded' # funded
    /\ algo'[App] = algo[App] + MIN_BALANCE_BUFFER

\* ---- C18 --------------------------------------------------------------------
\* C18 (as stated): custody is unchanged between two consecutive states unless
\* a buy succeeded (increase by the amount) or a claim succeeded (decrease by
\* the payout).
C18_Original ==
    [][algo'[App] # algo[App] => (BuyCredited \/ ClaimDebited)]_vars

\* C18 (amended): custody is unchanged between two consecutive states unless a
\* buy succeeded (increase by the amount), a claim succeeded (decrease by the
\* payout), or the deployer's funding payment credited it.
C18_CustodyChanges ==
    [][algo'[App] # algo[App] => (BuyCredited \/ ClaimDebited \/ FundCredited)]_vars

C18_Witness ==
    /\ sum_buys = 2
    /\ TotalPaid = 1
    /\ algo[App] = MIN_BALANCE_BUFFER + 1

\* ---- C19 --------------------------------------------------------------------
\* a buy whose payment and recipient the ledger and the method accept
ValidBuy(sender, payment, asset_id) ==
    /\ payment.sender = sender
    /\ payment.receiver = App
    /\ payment.amount > 0
    /\ algo[sender] >= payment.amount
    /\ asset_id \in 1..asset_count
    /\ holding[asset_id][sender] # NoHolding
    /\ holding[asset_id][App] >= payment.amount

BuyYesResult(sender, payment) ==
    buy_yes_expr(Payment(Ctx, payment.sender, payment.receiver, payment.amount),
                 sender, payment)

BuyNoResult(sender, payment) ==
    buy_no_expr(Payment(Ctx, payment.sender, payment.receiver, payment.amount),
                sender, payment)

CanBuy ==
    \E sender \in Addrs, payment \in Payments :
        ~Failed(BuyYesResult(sender, payment)) \/ ~Failed(BuyNoResult(sender, payment))

CanResolve ==
    \E sender \in Addrs, outcome \in Outcomes :
        ~Failed(resolve_market_expr(Ctx, sender, outcome))

\* C19: in a created market a valid buy is honoured exactly while now <
\* close_ts (so at close_ts - 1 but not at close_ts), a valid resolve of the
\* unresolved market is admitted exactly when now >= close_ts, in no state can
\* both a buy and a resolve succeed, and no buy succeeds once resolved.
C19_SharpDeadline ==
    /\ [](global.close_ts # 0 =>
            /\ \A sender \in Addrs, payment \in Payments :
                  /\ ValidBuy(sender, payment, global.yes_asa_id)
                        => (~Failed(BuyYesResult(sender, payment)) <=> now < global.close_ts)
                  /\ ValidBuy(sender, payment, global.no_asa_id)
                        => (~Failed(BuyNoResult(sender, payment)) <=> now < global.close_ts)
            /\ \A outcome \in {0, 1} :
                  global.resolved = 0
                     => (~Failed(resolve_market_expr(Ctx, global.creator, outcome))
                            <=> now >= global.close_ts)
            /\ ~(CanBuy /\ CanResolve))
    /\ [][sum_buys' > sum_buys => (global.resolved = 0 /\ now < global.close_ts)]_vars

C19_Witness ==
    /\ global.close_ts # 0
    /\ now = global.close_ts
    /\ global.resolved = 0
    /\ sum_buys > 0
    /\ last.op = "buy_no"
    /\ last.err = "market trading window closed"
    /\ CanResolve

\* ---- C20 --------------------------------------------------------------------
\* C20: the currency paid out by all claims never exceeds the winning side's
\* reserve, and custody always holds at least its funding plus the losing
\* side's reserve plus the winning shares still outstanding (before
\* resolution: nothing is paid and custody holds its funding plus both
\* reserves).
C20_ClaimsBackedByCustody ==
    /\ global.resolved = 1 =>
          /\ TotalPaid <= WinReserve
          /\ algo[App] >= Funding + LoseReserve + Outstanding(winning_asa(Ctx))
    /\ global.resolved = 0 =>
          /\ TotalPaid = 0
          /\ algo[App] >= Funding + Reserves

C20_Witness ==
    /\ global.resolved = 1
    /\ TotalPaid = 1
    /\ WinReserve = 1
    /\ LoseReserve = 1
    /\ Outstanding(losing_asa(Ctx)) = 1

\* ---- C21 --------------------------------------------------------------------
\* C21: a successful claim by c leaves every field of the market's global
\* state as it was (reserves included) and mints nothing; of the ledger it
\* changes only c's and the market's holding of the winning token (c's falls
\* to 0, the market's grows by as much) and the currency balances of custody
\* and of c (the payout moves from one to the other).
C21_ClaimTouchesOnlyBalances ==
    [][(last'.op = "claim" /\ last'.err = "" /\ paid' # paid) =>
          /\ global' = global
          /\ asset_count' = asset_count
          /\ \A c \in Addrs : claim(c) =>
                LET w == winning_asa(Ctx) IN
                /\ \A id \in AssetIds, a \in Accounts :
                      (id # w \/ a \notin {c, App}) => holding'[id][a] = holding[id][a]
                /\ holding'[w][c] = 0
                /\ holding'[w][App] = holding[w][App] + holding[w][c]
                /\ \A a \in Accounts : a \notin {c, App} => algo'[a] = algo[a]
                /\ algo'[App] = algo[App] - holding[w][c]
                /\ algo'[c] = algo[c] + holding[w][c]]_vars

C21_Witness ==
    /\ last.op = "claim"
    /\ last.err = ""
    /\ TotalPaid = 1
    /\ global.resolved = 1
    /\ WinReserve = 1
    /\ global.question # ""

\* ---- C22 --------------------------------------------------------------------
\* C22: the share-token balance of an identity b decreases only in a
\* successful claim called by b itself, and only its winning-token balance;
\* the currency balance of b increases only in a successful claim called by b,
\* by exactly the number of winning tokens reclaimed from b in that call.
C22_ReclaimOnlyFromCaller ==
    [][\A b \in Addrs :
          /\ \A id \in AssetIds :
                (Held(b, id))' < Held(b, id) =>
                   /\ last'.op = "claim"
                   /\ last'.err = ""
                   /\ id = winning_asa(Ctx)
                   /\ claim(b)
          /\ algo'[b] > algo[b] =>
                /\ last'.op = "claim"
                /\ last'.err = ""
                /\ claim(b)
                /\ algo'[b] - algo[b]
                     = Held(b, winning_asa(Ctx)) - (Held(b, winning_asa(Ctx)))']_vars

\* alice has just claimed while the deployer still holds shares
C22_Witness ==
    /\ last.op = "claim"
    /\ last.err = ""
    /\ paid["alice"] = 1
    /\ paid["deployer"] = 0
    /\ Held("alice", winning_asa(Ctx)) = 0
    /\ Held("deployer", winning_asa(Ctx)) = 1

\* ---- C23 --------------------------------------------------------------------
\* C23 as stated: once the market is resolved, a buy that is otherwise valid
\* (payment to the contract from the caller, positive amount, caller opted in)
\* is rejected with "market trading window closed".
C23_Original ==
    global.resolved = 1 =>
       \A sender \in Addrs, payment \in Payments :
          /\ ValidBuy(sender, payment, global.yes_asa_id)
                => BuyYesResult(sender, payment).err = "market trading window closed"
          /\ ValidBuy(sender, payment, global.no_asa_id)
                => BuyNoResult(sender, payment).err = "market trading window closed"

\* C23: once the market is resolved, an otherwise valid buy is rejected with
\* "market already resolved"; in a created market that is not resolved and
\* whose close time has been reached it is rejected with "market trading
\* window closed".
C23_BuyAfterResolutionReason ==
    \A sender \in Addrs, payment \in Payments :
       /\ ValidBuy(sender, payment, global.yes_asa_id) =>
             /\ global.resolved = 1
                   => BuyYesResult(sender, payment).err = "market already resolved"
             /\ (global.resolved = 0 /\ now >= global.close_ts)
                   => BuyYesResult(sender, payment).err = "market trading window closed"
       /\ ValidBuy(sender, payment, global.no_asa_id) =>
             /\ global.resolved = 1
                   => BuyNoResult(sender, payment).err = "market already resolved"
             /\ (global.resolved = 0 /\ now >= global.close_ts)
                   => BuyNoResult(sender, payment).err = "market trading window closed"

C23_Witness ==
    /\ global.resolved = 1
    /\ last.op = "buy_yes"
    /\ last.err = "market already resolved"
    /\ \E sender \in Addrs, payment \in Payments :
          ValidBuy(sender, payment, global.yes_asa_id)

\* ---- C24 --------------------------------------------------------------------
\* the application account cannot meet the minimum balance of two created
\* assets, so one of the two asset creations of create_market fails
MintingFails == algo[App] < 3 * MinBalanceUnit

\* the market as it is before any successful create
Uninitialized ==
    /\ global.close_ts = 0
    /\ global.creator = ZeroAddr
    /\ global.question = ""
    /\ global.yes_asa_id = 0
    /\ global.no_asa_id = 0
    /\ asset_count = 0

\* C24, state part: while close_ts = 0 the market is as constructed (no
\* creator, no question, no token), and a create call is rejected exactly when
\* its question is empty or longer than 128 bytes, its close_ts <= now, or the
\* minting fails; every other create call succeeds.
C24_CreateValidation ==
    global.close_ts = 0 =>
       /\ Uninitialized
       /\ \A sender \in Addrs, question \in Questions, close_ts \in 0..(MaxTime + 1),
             multisig_addr \in Addrs :
             Failed(create_market_expr(Ctx, sender, question, close_ts, multisig_addr))
                <=> \/ Len(question) = 0
                    \/ Len(question) > MaxQuestionLen
                    \/ close_ts <= now
                    \/ MintingFails

\* C24, step part: a rejected create leaves the market's global state and the
\* set of tokens as they were; close_ts leaves 0 only in a successful create,
\* after which now < close_ts, both reserves are 0, resolved is 0 and the two
\* tokens exist.
C24_CreateStep ==
    [][/\ (last'.op = "create_market" /\ last'.err # "")
             => (global' = global /\ asset_count' = asset_count)
       /\ (last'.op = "create_market" /\ last'.err = "" /\ last' # last)
             => (global.close_ts = 0 /\ global'.close_ts # 0)
       /\ (global.close_ts = 0 /\ global'.close_ts # 0) =>
             /\ last'.op = "create_market"
             /\ last'.err = ""
             /\ now < global'.close_ts
             /\ global'.yes_reserve = 0
             /\ global'.no_reserve = 0
             /\ global'.resolved = 0
             /\ global'.creator # ZeroAddr
             /\ asset_count' = 2
             /\ global'.yes_asa_id = 1
             /\ global'.no_asa_id = 2]_vars

\* C24: both parts
C24_RejectedCreateLeavesUninitialized == []C24_CreateValidation /\ C24_CreateStep

\* a create was just rejected for its question, the market is still
\* uninitialised and a valid create is possible
C24_Witness ==
    /\ last.op = "create_market"
    /\ last.err = "question too long"
    /\ Uninitialized
    /\ ~MintingFails
    /\ ~Failed(create_market_expr(Ctx, "alice", Q128, now + 1, "alice"))

\* ---- C25 --------------------------------------------------------------------
\* the market's lifecycle state
Phase ==
    IF global.close_ts = 0 /\ global.resolved = 0 THEN "Uninitialized"
    ELSE IF global.resolved = 1 THEN "Resolved"
    ELSE IF now < global.close_ts THEN "Open"
    ELSE "Closed"

\* C25: while the market is uninitialised every buy, resolve and claim call is
\* rejected and changes nothing, so only create can succeed; the lifecycle
\* state changes only Uninitialized -> Open (by a successful create), Open ->
\* Closed (by the clock) and Closed -> Resolved (by a successful resolve).
C25_LifecycleForwardOnly ==
    [][/\ (Phase = "Uninitialized" /\ last' # last /\ last'.op # "create_market")
             => (last'.err # "" /\ UNCHANGED ledger)
       /\ (Phase = "Uninitialized" /\ last'.err = "" /\ last' # last)
             => last'.op = "create_market"
       /\ Phase' # Phase =>
             \/ Phase = "Uninitialized" /\ Phase' = "Open"
                   /\ last'.op = "create_market" /\ last'.err = ""
             \/ Phase = "Open" /\ Phase' = "Closed" /\ now' > now
             \/ Phase = "Closed" /\ Phase' = "Resolved"
                   /\ last'.op = "resolve_market" /\ last'.err = ""]_vars

\* a resolve by the deployer was just rejected on the funded, uninitialised
\* market, after a rejected buy or claim could already have been made
C25_Witness ==
    /\ Phase = "Uninitialized"
    /\ funded
    /\ now = MaxTime
    /\ last.op = "resolve_market"
    /\ last.err # ""
    /\ algo["alice"] = InitialAlgo

\* ---- C26 --------------------------------------------------------------------
\* share balances after trading: for each identity and side either no opt-in
\* or a balance, with at most MaxDeposits shares issued in all
Positions ==
    {h \in [Addrs -> [1..2 -> {NoHolding} \cup (0..MaxDeposits)]] :
        LET Units(a, id) == IF h[a][id] = NoHolding THEN 0 ELSE h[a][id]
        IN Units("deployer", 1) + Units("deployer", 2)
             + Units("alice", 1) + Units("alice", 2) <= MaxDeposits}

RECURSIVE SumPosition(_, _, _)
SumPosition(h, id, as) ==
    IF as = {} THEN 0
    ELSE LET a == CHOOSE x \in as : TRUE
         IN (IF h[a][id] = NoHolding THEN 0 ELSE h[a][id]) + SumPosition(h, id, as \ {a})

\* the deployer's market at its close time, unresolved, after the buys that
\* produced the positions h (one unit of currency per share, paid into custody
\* on top of the deployment funding)
ClosedMarket(h) ==
    LET yes_r == SumPosition(h, 1, Addrs)
        no_r  == SumPosition(h, 2, Addrs) IN
    /\ global = [question |-> Q128, creator |-> "deployer", multisig |-> "deployer",
                 close_ts |-> 1, yes_asa_id |-> 1, no_asa_id |-> 2,
                 yes_reserve |-> yes_r, no_reserve |-> no_r,
                 resolved |-> 0, outcome |-> 0]
    /\ algo = [a \in Accounts |->
                 IF a = App THEN MIN_BALANCE_BUFFER + yes_r + no_r ELSE InitialAlgo]
    /\ holding = [id \in AssetIds |-> [a \in Accounts |->
                    IF id = 1 THEN (IF a = App THEN ASA_TOTAL_SUPPLY - yes_r ELSE h[a][1])
                    ELSE IF id = 2 THEN (IF a = App THEN ASA_TOTAL_SUPPLY - no_r ELSE h[a][2])
                    ELSE NoHolding]]
    /\ asset_count = 2
    /\ now = 1
    /\ funded = TRUE
    /\ last = [op |-> "none", err |-> "", ret |-> 0]
    /\ sum_buys = yes_r + no_r
    /\ paid = [a \in Addrs |-> 0]

InitClosed == \E h \in Positions : ClosedMarket(h)

\* the calls and ledger steps possible from the close time on
NextClosed ==
    \/ \E sender \in Addrs, payment \in Payments : buy_yes(sender, payment)
    \/ \E sender \in Addrs, payment \in Payments : buy_no(sender, payment)
    \/ \E sender \in Addrs, outcome \in Outcomes : resolve_market(sender, outcome)
    \/ \E sender \in Addrs : claim(sender)
    \/ \E a \in Addrs, id \in AssetIds : OptIn(a, id)

\* units of the winning token held by c in a resolved market
WinningHeld(c) == IF global.resolved = 1 THEN Held(c, winning_asa(Ctx)) ELSE 0

\* the step of a successful claim by c, written out: burn_asa moves c's winning
\* tokens to the application account, send_algo pays as many microAlgos, the
\* method returns the balance read afterwards
ClaimPayout(c) ==
    LET w == winning_asa(Ctx)
        token_bal == WinningHeld(c) IN
    /\ token_bal > 0
    /\ holding' = [holding EXCEPT ![w][c] = 0, ![w][App] = @ + token_bal]
    /\ algo' = [algo EXCEPT ![App] = @ - token_bal, ![c] = @ + token_bal]
    /\ paid' = [paid EXCEPT ![c] = @ + token_bal]
    /\ last' = [op |-> "claim", err |-> "", ret |-> 0]
    /\ UNCHANGED <<global, asset_count, now, funded, sum_buys>>

\* a holder of winning tokens who can claim eventually does (the claim's own
\* premise: holders keep calling claim)
SpecFair == InitClosed /\ [][NextClosed]_vars /\ \A c \in Addrs : WF_vars(ClaimPayout(c))

\* a claim by c would succeed now
CanClaim(c) == ~Failed(claim_expr(Ctx, c))

\* C26, safety part: in a resolved market the claim of every identity with a
\* positive winning-token balance succeeds, whatever others have claimed.
C26_ClaimEnabled == \A c \in Addrs : WinningHeld(c) > 0 => CanClaim(c)

\* C26: the safety part holds in every state, the steps ClaimPayout(c) are
\* exactly the successful claim calls of c, and under fair claim calls an
\* identity holding b > 0 winning tokens in the resolved market eventually
\* holds none and has been paid b.
C26_ClaimsEventuallyPaid ==
    /\ []C26_ClaimEnabled
    /\ [][last'.op = "claim" =>
             \A c \in Addrs : ClaimPayout(c) <=> (CanClaim(c) /\ claim(c))]_vars
    /\ \A c \in Addrs, b \in 1..MaxDeposits :
          (WinningHeld(c) = b) ~> (WinningHeld(c) = 0 /\ paid[c] = b)

\* both identities hold winning tokens and one of them has just been paid
C26_Witness ==
    /\ global.resolved = 1
    /\ global.outcome = 0
    /\ last.op = "claim"
    /\ last.err = ""
    /\ paid["deployer"] = 1
    /\ WinningHeld("deployer") = 0
    /\ WinningHeld("alice") = 1
    /\ CanClaim("alice")

\* ---- C27 --------------------------------------------------------------------
\* the deployer's open market after the deployer has bought all but yes_left
\* YES shares and all but no_left NO shares
NearlySoldOut(yes_left, no_left) ==
    LET yes_r == ASA_TOTAL_SUPPLY - yes_left
        no_r  == ASA_TOTAL_SUPPLY - no_left IN
    /\ global = [question |-> Q128, creator |-> "deployer", multisig |-> "deployer",
                 close_ts |-> 1, yes_asa_id |-> 1, no_asa_id |-> 2,
                 yes_reserve |-> yes_r, no_reserve |-> no_r,
                 resolved |-> 0, outcome |-> 0]
    /\ algo = [a \in Accounts |->
                 IF a = App THEN MIN_BALANCE_BUFFER + yes_r + no_r ELSE InitialAlgo]
    /\ holding = [id \in AssetIds |-> [a \in Accounts |->
                    IF id = 1 THEN (IF a = App THEN yes_left
                                    ELSE IF a = "deployer" THEN yes_r ELSE NoHolding)
                    ELSE IF id = 2 THEN (IF a = App THEN no_left
                                         ELSE IF a = "deployer" THEN no_r ELSE NoHolding)
                    ELSE NoHolding]]
    /\ asset_count = 2
    /\ now = 0
    /\ funded = TRUE
    /\ last = [op |-> "none", err |-> "", ret |-> 0]
    /\ sum_buys = yes_r + no_r
    /\ paid = [a \in Addrs |-> 0]

\* the deployed application, or a market whose tokens are nearly sold out
InitSupply ==
    \/ Init
    \/ \E yes_left \in 0..MaxRemaining, no_left \in 0..MaxRemaining :
          NearlySoldOut(yes_left, no_left)

SpecSupply == InitSupply /\ [][Next]_vars

\* C27, state part: the tokens exist exactly once the market is created; for
\* each of them custody's holding plus all identities' balances is
\* ASA_TOTAL_SUPPLY; neither reserve exceeds ASA_TOTAL_SUPPLY; a buy of more
\* than custody's remaining holding of the side's token is rejected.
C27_SupplyConserved ==
    /\ asset_count \in {0, 2}
    /\ asset_count = 0 <=> global.close_ts = 0
    /\ \A id \in 1..asset_count :
          /\ holding[id][App] >= 0
          /\ holding[id][App] + Outstanding(id) = ASA_TOTAL_SUPPLY
    /\ global.yes_reserve <= ASA_TOTAL_SUPPLY
    /\ global.no_reserve <= ASA_TOTAL_SUPPLY
    /\ asset_count = 2 =>
          \A sender \in Addrs, payment \in Payments :
             /\ payment.amount > holding[global.yes_asa_id][App]
                   => Failed(BuyYesResult(sender, payment))
             /\ payment.amount > holding[global.no_asa_id][App]
                   => Failed(BuyNoResult(sender, payment))

\* C27, step part: tokens are minted only by the successful create, both at
\* once, and a buy rejected for lack of tokens in custody changes nothing.
C27_MintedOnce ==
    [][/\ asset_count' # asset_count =>
             /\ asset_count = 0
             /\ asset_count' = 2
             /\ last'.op = "create_market"
             /\ last'.err = ""
             /\ \A id \in 1..2 : holding'[id][App] = ASA_TOTAL_SUPPLY
       /\ (last'.err = "underflow on asset transfer" /\ last' # last)
             => (last'.op \in {"buy_yes", "buy_no"} /\ UNCHANGED ledger)]_vars

\* C27: both parts
C27_FixedSupply == []C27_SupplyConserved /\ C27_MintedOnce

\* while trading is open, a buy of two YES shares was just rejected because
\* custody has one left
C27_Witness ==
    /\ global.resolved = 0
    /\ now < global.close_ts
    /\ last.op = "buy_yes"
    /\ last.err = "underflow on asset transfer"
    /\ holding[global.yes_asa_id][App] = 1
    /\ global.yes_reserve = ASA_TOTAL_SUPPLY - 1

====
